---- MODULE Spec2Model ----
(***************************************************************************)
(* GrantFinder: the scrape -> merge -> split/expire pipeline of refresh.py *)
(* (file-backed store), the upsert pipeline of refresh_supabase.py and the *)
(* dashboard cache of app.py, as state machines.                           *)
(*                                                                         *)
(* Text is modelled by strings drawn from a small universe; what the code  *)
(* computes on text (substring tests, urljoin, date parsing, CSV cells) is *)
(* computed here by tables over that universe.                             *)
(***************************************************************************)
EXTENDS Integers, Sequences, FiniteSets, TLC

VARIABLES
    now,        \* the clock: index of the current day (date.today(), utcnow())
    \* refresh.py
    master,     \* cells of DATA_DIR/master/all_vic.csv, one record per row
    feeds,      \* cells of DATA_DIR/<slug>/grants.csv, per tenant
    pc,         \* position of the refresh.py main script
    idx,        \* position in the council loop of refresh.py
    new_rows,   \* argument of the last merge_into_master call
    added,      \* return value of the last merge_into_master call
    fetched,    \* the sources of the last scrape_sources pass and their answers
    \* merge_into_master, step by step, per refresh process
    m_pc,       \* position of each process in merge_into_master
    m_rows,     \* its argument new_rows
    m_df,       \* its df, as ensure_df read it
    m_to_add,   \* its to_add
    m_tmp,      \* its temporary file, as save_df_atomic wrote it
    \* refresh_supabase.py
    grants,     \* rows of the table "grants" (primary key id)
    last_run,   \* value of the row last_run_utc of the table "meta"
    sb_pc,      \* position of the refresh_supabase.py main script
    sb_idx,     \* position in its tenant loop
    sb_summarize, \* whether SUMMARIZE and OPENAI_API_KEY are set
    \* app.py
    cache_file, \* grants.json: whether it exists, whether its text is whole,
                \* and the records of its text
    cache_prev, \* the records grants.json held before its last open(.., "w")
    grants_df,  \* st.session_state.grants_df of the session that fetches
    app_pc,     \* position of that session in save_grants_cache
    loaded,     \* the file a concurrent reader read last and what it obtained
    rd,         \* flips at each read
    ranked,     \* the frame match_and_rank returned last
    sel         \* the arguments of that call: council, extra keywords, clock

fileVars == <<master, feeds, pc, idx, new_rows, added, fetched>>
procVars == <<m_pc, m_rows, m_df, m_to_add, m_tmp>>
sbVars == <<grants, last_run, sb_pc, sb_idx, sb_summarize>>
appVars == <<cache_file, cache_prev, grants_df, app_pc>>
readVars == <<loaded, rd>>
rankVars == <<ranked, sel>>

vars == <<now, fileVars, procVars, sbVars, appVars, readVars, rankVars>>

-----------------------------------------------------------------------------
(* Bounds *)

\* last day index the clock reaches
MaxClock == 4

-----------------------------------------------------------------------------
(* Calendar: day index 0 is 2024-12-30, 1 is 2024-12-31, 2 is 2025-01-01.  *)

CumDays == <<0, 31, 59, 90, 120, 151, 181, 212, 243, 273, 304, 334>>

DayIndex(dt) ==
    IF dt.y = 2024 THEN dt.d - 30 ELSE 1 + CumDays[dt.m] + dt.d

\* the dates the model's texts name
CalDates ==
    {[y |-> 2024, m |-> 12, d |-> d] : d \in 30..31}
        \cup {[y |-> 2025, m |-> m, d |-> d] : m \in 1..12, d \in 1..12}
        \cup {[y |-> 2025, m |-> m, d |-> d] : m \in 1..2, d \in 13..28}
        \cup {[y |-> 2025, m |-> 1, d |-> d] : d \in 29..31}

DateOfIndex(n) == CHOOSE dt \in CalDates : DayIndex(dt) = n

Pad2(n) == IF n < 10 THEN "0" \o ToString(n) ELSE ToString(n)

\* date.isoformat()
isoformat(dt) == ToString(dt.y) \o "-" \o Pad2(dt.m) \o "-" \o Pad2(dt.d)

MonthName ==
    <<"January", "February", "March", "April", "May", "June", "July",
      "August", "September", "October", "November", "December">>

\* free-text deadline phrases as pages carry them
LongText(dt) ==
    "Applications close " \o ToString(dt.d) \o " " \o MonthName[dt.m]
        \o " " \o ToString(dt.y)

SlashText(dt) == Pad2(dt.d) \o "/" \o Pad2(dt.m) \o "/" \o ToString(dt.y)

\* the phrase DEADLINE_RX matches on a detail page
ClosesText(dt) == "Closes " \o SlashText(dt)

\* datetime.utcnow().isoformat() + "Z", at the clock's granularity
utcnow_iso(t) == isoformat(DateOfIndex(t)) \o "T00:00:00Z"

-----------------------------------------------------------------------------
(* Optional values and CSV cells *)

None == "<None>"

\* the float NaN pandas puts in a cell it read as missing
NaN == "<NaN>"

\* pandas' default na_values: a cell holding one of them is read as NaN
NAValues ==
    {"", "#N/A", "#N/A N/A", "#NA", "-1.#IND", "-1.#QNAN", "-NaN", "-nan",
     "1.#IND", "1.#QNAN", "<NA>", "N/A", "NA", "NULL", "NaN", "None", "n/a",
     "nan", "null"}

BASE_COLUMNS ==
    {"id", "title", "description", "amount", "deadline", "link", "source",
     "created_at", "summary"}

MASTER_COLUMNS == BASE_COLUMNS \cup {"council_slug"}

RECURSIVE MapSeq(_, _)
MapSeq(F(_), s) ==
    IF s = <<>> THEN <<>> ELSE <<F(Head(s))>> \o MapSeq(F, Tail(s))

Range(s) == {s[i] : i \in DOMAIN s}

\* pd.read_csv(path): every cell that holds an NA marker becomes NaN
read_csv(file) ==
    MapSeq(LAMBDA r : [c \in DOMAIN r |-> IF r[c] \in NAValues THEN NaN ELSE r[c]],
           file)

\* df[columns].to_csv(tmp_path, index=False): a missing column is added as
\* "", NaN is written as the empty cell
to_csv(df, columns) ==
    MapSeq(LAMBDA r : [c \in columns |->
                          IF c \notin DOMAIN r THEN ""
                          ELSE IF r[c] = NaN THEN "" ELSE r[c]],
           df)

\* save_df_atomic: the rows go to a temporary file that os.replace renames
\* over path, so path holds the old cells or the new ones
save_df_atomic(df, columns) == to_csv(df, columns)

\* ensure_df: a missing file is created empty, then read
ensure_df(file) == read_csv(file)

-----------------------------------------------------------------------------
(* Text: the probe words a text holds (case-folded), by table *)

KEYWORDS == {"grant", "fund", "funding", "program", "round", "apply"}

\* the words of KEYWORDS that occur in s.lower()
KeywordsIn(s) ==
    CASE s = "Community Grant Round" -> {"grant", "round"}
      [] s = "Community Grant Round 2025" -> {"grant", "round"}
      [] s = "Round 1" -> {"round"}
      [] s = "Grants portal unavailable" -> {"grant"}
      [] s = "Youth Program" -> {"program"}
      [] s = "Apply now" -> {"apply"}
      [] s = "Sports Fund" -> {"fund"}
      [] s = "Arts Funding" -> {"fund", "funding"}
      [] s = "/grants/x" -> {"grant"}
      [] s = "/grants/y" -> {"grant"}
      [] s = "/grants/q" -> {"grant"}
      [] s = "/grants/w" -> {"grant"}
      [] s = "/funding/z" -> {"fund", "funding"}
      [] s = "/funding/w" -> {"fund", "funding"}
      [] s = "https://vic.example/grants/x" -> {"grant"}
      [] s = "/programs/arts" -> {"program"}
      [] s = "/apply/now" -> {"apply"}
      [] OTHER -> {}

\* s.strip()
strip(s) == IF s = " " THEN "" ELSE s

\* href.startswith("http")
startswith_http(s) ==
    s \in {"https://vic.example/grants/x", "https://www.vic.gov.au/grants/arts"}

\* scheme and host of a listing URL
Origin(url) ==
    CASE url = "https://vic.example/grants" -> "https://vic.example"
      [] url = "https://fed.example/list" -> "https://fed.example"
      [] url = "https://wyndham.example/grants" -> "https://wyndham.example"
      [] url = "https://yarra.example/funding" -> "https://yarra.example"

\* urljoin(base_url, href) for a root-relative href
urljoin(base_url, href) == Origin(base_url) \o href

-----------------------------------------------------------------------------
(* Configuration: tenants.yaml *)

TenantOrder == <<"vic", "wyndham", "yarra">>

TENANTS ==
    [slug \in Range(TenantOrder) |->
        CASE slug = "vic" ->
               <<"https://vic.example/grants", "https://fed.example/list">>
          [] slug = "wyndham" -> <<"https://wyndham.example/grants">>
          [] slug = "yarra" -> <<"https://yarra.example/funding">>]

\* the setting with statewide inclusion switched off
StatewideExcluded == FALSE

INCLUDE_STATEWIDE_IN_EACH == TRUE

\* the council slugs, in TENANTS.items() order
Councils == SelectSeq(TenantOrder, LAMBDA s : s # "vic")

-----------------------------------------------------------------------------
(* The web: what a GET of a listing URL may answer *)

Anchor(t, h, p, li) == [title |-> t, href |-> h, p |-> p, li |-> li]

PagesOf(url) ==
    CASE url = "https://vic.example/grants" ->
           { << Anchor("Community Grant Round", "/grants/x", "Apply now.", ""),
                Anchor("Contact us", "/about", "", ""),
                Anchor("Round 1", "https://vic.example/grants/x", "", "") >>,
             << Anchor("Community Grant Round 2025", "/grants/x", "N/A", "") >> }
      [] url = "https://fed.example/list" ->
           { << Anchor("Youth Program", "https://vic.example/grants/x", "",
                       "Federal list"),
                Anchor("N/A", "/grants/y", "", "") >> }
      [] url = "https://wyndham.example/grants" ->
           { << Anchor("Apply now", "https://vic.example/grants/x",
                       "Apply now.", ""),
                Anchor("Sports Fund", "/funding/z", "N/A", "") >> }
      [] url = "https://yarra.example/funding" ->
           { << Anchor("Arts Funding", "/funding/w", "Apply now.", ""),
                Anchor(" ", "/grants/q", "", "") >> }

\* requests.get: a response with a status and a body, or an exception
\* (connection error, timeout)
\* the body of an error response
ErrorPage == << Anchor("Grants portal unavailable", "/grants/x", "", "") >>

Responses(url) ==
    {[raised |-> FALSE, status |-> 200, text |-> pg] : pg \in PagesOf(url)}
        \cup {[raised |-> FALSE, status |-> 503, text |-> ErrorPage],
              [raised |-> TRUE, status |-> 0, text |-> <<>>]}

\* the answers of one pass over a list of sources
Webs(sources) == [Range(sources) -> UNION {Responses(u) : u \in Range(sources)}]

WebOf(sources) ==
    {w \in Webs(sources) : \A u \in Range(sources) : w[u] \in Responses(u)}

-----------------------------------------------------------------------------
(* refresh.py: utilities and scraping *)

\* hashlib.sha256(text).hexdigest()[:16], taken as collision-free
sha16(text) == "sha16(" \o text \o ")"

\* the dates a deadline text may name
DeadlineDates == {DateOfIndex(n) : n \in 0..(MaxClock + 1)}

\* dateutil's parse(s, dayfirst=True, fuzzy=True).date(), as the set of its
\* results (empty when it raises): an ISO text y-a-b with b <= 12 is read
\* day first (day a, month b); a worded or d/m/y text names its date
dateparse(s) ==
    {IF dt.d <= 12 THEN [y |-> dt.y, m |-> dt.d, d |-> dt.m] ELSE dt :
        dt \in {x \in DeadlineDates : s = isoformat(x)}}
    \cup {dt \in DeadlineDates :
             s \in {LongText(dt), SlashText(dt), ClosesText(dt)}}

normalize_date_str(s) ==
    IF s = None \/ s = "" THEN None
    ELSE IF s = NaN \/ dateparse(s) = {} THEN None
    ELSE isoformat(CHOOSE dt \in dateparse(s) : TRUE)

\* a safe_get that does not look at the status
safe_get_any_status(resp) ==
    IF ~resp.raised
    THEN [some |-> TRUE, text |-> resp.text]
    ELSE [some |-> FALSE, text |-> <<>>]

\* safe_get: the body of a successful response, None otherwise
safe_get(resp) ==
    IF ~resp.raised /\ resp.status < 400
    THEN [some |-> TRUE, text |-> resp.text]
    ELSE [some |-> FALSE, text |-> <<>>]

\* near_text(a, "p") or near_text(a, "li")
near_text(a) == IF a.p # "" THEN a.p ELSE a.li

\* "de-dup by link": the first row of each non-empty link, in order
RECURSIVE DedupByLink(_, _)
DedupByLink(rows, seen) ==
    IF rows = <<>> THEN <<>>
    ELSE LET r == Head(rows)
         IN  IF r.link # "" /\ r.link \notin seen
             THEN <<r>> \o DedupByLink(Tail(rows), seen \cup {r.link})
             ELSE DedupByLink(Tail(rows), seen)

\* the test of parse_generic on one hyperlink
KeepAnchor(a) ==
    LET title == strip(a.title)
        href == strip(a.href)
    IN  /\ title # "" /\ href # ""
        /\ ~( KeywordsIn(title) \cap KEYWORDS = {}
              /\ "grant" \notin KeywordsIn(href)
              /\ "fund" \notin KeywordsIn(href) )

Candidate(a, base_url) ==
    LET href == strip(a.href)
    IN  [title |-> strip(a.title),
         description |-> near_text(a),
         amount |-> "",
         deadline |-> "",
         link |-> IF startswith_http(href) THEN href ELSE urljoin(base_url, href),
         source |-> base_url,
         summary |-> ""]

parse_generic(html, base_url) ==
    IF ~html.some \/ html.text = <<>> THEN <<>>
    ELSE DedupByLink(
             MapSeq(LAMBDA a : Candidate(a, base_url),
                    SelectSeq(html.text, KeepAnchor)),
             {})

RECURSIVE ScrapeAll(_, _)
ScrapeAll(sources, web) ==
    IF sources = <<>> THEN <<>>
    ELSE parse_generic(safe_get(web[Head(sources)]), Head(sources))
             \o ScrapeAll(Tail(sources), web)

scrape_sources(sources, web) == DedupByLink(ScrapeAll(sources, web), {})

-----------------------------------------------------------------------------
(* refresh.py: merge and expiry *)

\* df["link"].fillna("").astype(str)
fillna(v) == IF v = NaN THEN "" ELSE v

\* a merge that takes every link for unseen
existing_links_none(df) == {}

\* existing_links of merge_into_master
existing_links(df) ==
    IF df = <<>> THEN {} ELSE {fillna(df[i].link) : i \in DOMAIN df}

\* a stamping whose id also takes in the clock
MergeItemTimed(r, t) ==
    [c \in DOMAIN r \cup {"id", "created_at"} |->
        IF c = "id" THEN sha16(r.title \o "|" \o r.link \o "|" \o utcnow_iso(t))
        ELSE IF c = "created_at" THEN utcnow_iso(t)
        ELSE IF c = "deadline" /\ normalize_date_str(r.deadline) # None
        THEN normalize_date_str(r.deadline)
        ELSE r[c]]

\* one surviving candidate, as merge_into_master stamps it
MergeItem(r, t) ==
    LET iso == normalize_date_str(r.deadline)
    IN  [id |-> sha16(r.title \o "|" \o r.link),
         title |-> r.title,
         description |-> r.description,
         amount |-> r.amount,
         deadline |-> IF iso # None THEN iso ELSE r.deadline,
         link |-> r.link,
         source |-> r.source,
         created_at |-> utcnow_iso(t),
         summary |-> r.summary,
         council_slug |-> r.council_slug]

\* a selection that stamps every candidate, seen or not
SelectEvery(df, rows, t) == MapSeq(LAMBDA r : MergeItem(r, t), rows)

\* the to_add list of merge_into_master: the stamped candidates whose link
\* is non-empty and not among the links read
SelectUnseen(df, rows, t) ==
    MapSeq(LAMBDA r : MergeItem(r, t),
           SelectSeq(rows, LAMBDA r :
               ~(r.link = "" \/ r.link \in existing_links(df))))

\* merge_into_master(new_rows) at time t on the master file: the file
\* after the call, the count returned, and whether the file was written
merge_into_master(file, rows, t) ==
    IF rows = <<>> THEN [file |-> file, added |-> 0, wrote |-> FALSE]
    ELSE
    LET df == ensure_df(file)
        to_add == SelectUnseen(df, rows, t)
        df2 == IF df # <<>> THEN df \o to_add ELSE to_add
    IN  IF to_add = <<>> THEN [file |-> file, added |-> 0, wrote |-> FALSE]
        ELSE [file |-> save_df_atomic(df2, MASTER_COLUMNS),
              added |-> Len(to_add), wrote |-> TRUE]

\* pd.to_datetime(iso, errors="coerce"): the day index of an ISO date, NaT
\* for None
NaT == [isna |-> TRUE, day |-> 0]

to_datetime(iso) ==
    IF iso = None THEN NaT
    ELSE [isna |-> FALSE,
          day |-> DayIndex(CHOOSE dt \in CalDates : isoformat(dt) = iso)]

\* a keep_mask that also drops the rows due today
KeepRowStrict(r, today) ==
    LET dl == to_datetime(normalize_date_str(r.deadline))
    IN  dl.isna \/ dl.day > today

\* keep_mask of expire_old_rows for one row
KeepRow(r, today) ==
    LET dl == to_datetime(normalize_date_str(r.deadline))
    IN  dl.isna \/ dl.day >= today

\* an expiry that also writes the re-normalized date back into deadline
expire_rewriting(df, today) ==
    MapSeq(LAMBDA r : [c \in DOMAIN r \cup {"deadline_iso"} |->
                          IF c \in {"deadline_iso", "deadline"}
                             /\ normalize_date_str(r.deadline) # None
                          THEN normalize_date_str(r.deadline)
                          ELSE IF c = "deadline_iso" THEN None ELSE r[c]],
           SelectSeq(df, LAMBDA r : KeepRow(r, today)))

\* expire_old_rows(df) on the day `today`
expire_old_rows(df, today) ==
    IF df = <<>> THEN df
    ELSE MapSeq(LAMBDA r : [c \in DOMAIN r \cup {"deadline_iso"} |->
                               IF c = "deadline_iso"
                               THEN normalize_date_str(r.deadline) ELSE r[c]],
                SelectSeq(df, LAMBDA r : KeepRow(r, today)))

\* drop_duplicates(subset=["link"], keep="last")
RECURSIVE drop_duplicates_last(_)
drop_duplicates_last(df) ==
    IF df = <<>> THEN <<>>
    ELSE IF \E j \in DOMAIN Tail(df) : Tail(df)[j].link = Head(df).link
         THEN drop_duplicates_last(Tail(df))
         ELSE <<Head(df)>> \o drop_duplicates_last(Tail(df))

\* step 3 of the main script for one tenant: the rows written to grants.csv
SplitFor(slug, file, today) ==
    LET m == ensure_df(file)
        own == SelectSeq(m, LAMBDA r : r.council_slug = slug)
        vic == SelectSeq(m, LAMBDA r : r.council_slug = "vic")
        council_df ==
            IF slug = "vic" THEN vic
            ELSE drop_duplicates_last(
                     IF INCLUDE_STATEWIDE_IN_EACH THEN own \o vic ELSE own)
    IN  save_df_atomic(expire_old_rows(council_df, today), BASE_COLUMNS)

-----------------------------------------------------------------------------
(* refresh.py: the main script, one refresh run after another *)

\* for r in rows: r["council_slug"] = slug
Tagged(rows, slug) ==
    MapSeq(LAMBDA r : [c \in DOMAIN r \cup {"council_slug"} |->
                          IF c = "council_slug" THEN slug ELSE r[c]],
           rows)

\* the refresh processes that may run at once
Procs == {1, 2}

Init ==
    /\ now = 1
    /\ master = <<>>
    /\ feeds = [slug \in Range(TenantOrder) |-> <<>>]
    /\ pc = "idle"
    /\ idx = 1
    /\ new_rows = <<>>
    /\ added = 0
    /\ fetched = [sources |-> <<>>, web |-> <<>>, dweb |-> <<>>]
    /\ m_pc = [p \in Procs |-> "idle"]
    /\ m_rows = [p \in Procs |-> <<>>]
    /\ m_df = [p \in Procs |-> <<>>]
    /\ m_to_add = [p \in Procs |-> <<>>]
    /\ m_tmp = [p \in Procs |-> <<>>]
    /\ cache_file = [exists |-> FALSE, whole |-> FALSE, rows |-> <<>>]
    /\ cache_prev = <<>>
    /\ grants_df = <<>>
    /\ app_pc = "idle"
    /\ loaded = <<>>
    /\ rd = FALSE
    /\ ranked = <<>>
    /\ sel = [council |-> [state |-> "", priorities |-> {}],
              extra_keywords |-> <<>>, t |-> 1, midnight |-> TRUE]
    /\ grants = {}
    /\ last_run = None
    /\ sb_pc = "idle"
    /\ sb_idx = 1
    /\ sb_summarize = FALSE

\* the scheduler starts refresh.py
StartRun ==
    /\ pc = "idle"
    /\ pc' = "vic"
    /\ UNCHANGED <<now, master, feeds, idx, new_rows, added, fetched, sbVars, procVars, appVars, readVars, rankVars>>

\* 1) statewide once
Statewide ==
    /\ pc = "vic"
    /\ \E web \in WebOf(TENANTS["vic"]) :
          LET rows == Tagged(scrape_sources(TENANTS["vic"], web), "vic")
              res == merge_into_master(master, rows, now)
          IN  /\ master' = res.file
              /\ new_rows' = rows
              /\ added' = res.added
              /\ fetched' = [sources |-> TENANTS["vic"], web |-> web, dweb |-> <<>>]
    /\ pc' = "councils"
    /\ idx' = 1
    /\ UNCHANGED <<now, feeds, sbVars, procVars, appVars, readVars, rankVars>>

\* 2) each council once
Council ==
    /\ pc = "councils"
    /\ idx <= Len(Councils)
    /\ \E web \in WebOf(TENANTS[Councils[idx]]) :
          LET rows == Tagged(scrape_sources(TENANTS[Councils[idx]], web),
                             Councils[idx])
              res == merge_into_master(master, rows, now)
          IN  /\ master' = res.file
              /\ new_rows' = rows
              /\ added' = res.added
              /\ fetched' = [sources |-> TENANTS[Councils[idx]], web |-> web,
                             dweb |-> <<>>]
    /\ idx' = idx + 1
    /\ UNCHANGED <<now, feeds, pc, sbVars, procVars, appVars, readVars, rankVars>>

\* 3) split master to per-council CSVs
Split ==
    /\ pc = "councils"
    /\ idx > Len(Councils)
    /\ feeds' = [slug \in Range(TenantOrder) |-> SplitFor(slug, master, now)]
    /\ pc' = "idle"
    /\ UNCHANGED <<now, master, idx, new_rows, added, fetched, sbVars, procVars, appVars, readVars, rankVars>>

\* a day passes
Tick ==
    /\ now < MaxClock
    /\ now' = now + 1
    /\ UNCHANGED <<fileVars, sbVars, procVars, appVars, readVars, rankVars>>

Next == StartRun \/ Statewide \/ Council \/ Split \/ Tick

Spec == Init /\ [][Next]_vars

-----------------------------------------------------------------------------
(* The calls of refresh.py taken one at a time, on any candidate list:     *)
(* here pc names the last call made                                        *)

LinkX == "https://vic.example/grants/x"
LinkY == "https://fed.example/grants/y"
LinkZ == "https://wyndham.example/funding/z"

Cand(t, l, desc, dl, slug) ==
    [title |-> t, description |-> desc, amount |-> "", deadline |-> dl,
     link |-> l, source |-> "https://vic.example/grants", summary |-> "",
     council_slug |-> slug]

\* candidates as an extractor with detail enrichment hands them over
CandUniverse ==
    {Cand("Community Grant Round", LinkX, "Apply now.", "", "vic"),
     Cand("Apply now", LinkX, "N/A", LongText(DateOfIndex(2)), "wyndham"),
     Cand("Youth Program", LinkY, "N/A", SlashText(DateOfIndex(3)), "vic"),
     Cand("Sports Fund", LinkZ, "", "TBC", "yarra")}

\* candidate lists as scrape_sources returns them: no link twice
CandLists ==
    {<<>>} \cup {<<c>> : c \in CandUniverse}
        \cup {<<c, d>> : c, d \in CandUniverse}

MergeCall ==
    /\ \E rows \in {l \in CandLists : \A i, j \in DOMAIN l :
                                         i # j => l[i].link # l[j].link} :
          LET res == merge_into_master(master, rows, now)
          IN  /\ master' = res.file
              /\ new_rows' = rows
              /\ added' = res.added
    /\ pc' = "merged"
    /\ UNCHANGED <<now, feeds, idx, fetched, sbVars, procVars, appVars, readVars, rankVars>>

SplitCall ==
    /\ feeds' = [slug \in Range(TenantOrder) |-> SplitFor(slug, master, now)]
    /\ pc' = "split"
    /\ UNCHANGED <<now, master, idx, new_rows, added, fetched, sbVars, procVars, appVars, readVars, rankVars>>

NextCalls == MergeCall \/ SplitCall \/ Tick

SpecCalls == Init /\ [][NextCalls]_vars

-----------------------------------------------------------------------------
(* refresh_supabase.py: extraction with detail enrichment, upsert *)

\* FOLLOW_DETAILS as configured (the environment variable)
FOLLOW_DETAILS == 2

\* the listing pages the upsert-backed refresh is run against
SbPagesOf(url) ==
    CASE url = "https://vic.example/grants" ->
           { << Anchor("Community Grant Round", "/grants/x", "Apply now.", ""),
                Anchor("Youth Program", "/grants/y", "", ""),
                Anchor("Arts Funding", "/grants/w", "", "") >> }
      [] url = "https://wyndham.example/grants" ->
           { << Anchor("Apply now", "https://vic.example/grants/x",
                       "Apply now.", "") >> }
      [] OTHER -> { << Anchor("Contact us", "/about", "", "") >> }

SbResponses(url) ==
    {[raised |-> FALSE, status |-> 200, text |-> pg] : pg \in SbPagesOf(url)}
        \cup {[raised |-> FALSE, status |-> 503, text |-> <<>>],
              [raised |-> TRUE, status |-> 0, text |-> <<>>]}

SbWebOf(sources) ==
    {w \in [Range(sources) -> UNION {SbResponses(u) : u \in Range(sources)}] :
        \A u \in Range(sources) : w[u] \in SbResponses(u)}

\* a detail page: its first heading, its meta description, its first
\* paragraph
Detail(h, meta, p) == [h1 |-> h, meta |-> meta, p |-> p]

DetailPagesOf(link) ==
    CASE link = "https://vic.example/grants/x" ->
           {Detail("Community Grants Program",
                   "Up to $5,000. " \o ClosesText(DateOfIndex(3)) \o ".", "")}
      [] link = "https://vic.example/grants/y" ->
           {Detail("", "", "Funding for youth groups.")}
      [] OTHER -> {}

DetailResponses(link) ==
    {[raised |-> FALSE, status |-> 200, text |-> pg] : pg \in DetailPagesOf(link)}
        \cup {[raised |-> FALSE, status |-> 404, text |-> <<>>],
              [raised |-> TRUE, status |-> 0, text |-> <<>>]}

DetailLinks ==
    {"https://vic.example/grants/x", "https://vic.example/grants/y",
     "https://vic.example/grants/w"}

DetailWebs ==
    {w \in [DetailLinks -> UNION {DetailResponses(l) : l \in DetailLinks}] :
        \A l \in DetailLinks : w[l] \in DetailResponses(l)}

\* AMOUNT_RX.search(text).group(0), or ""
extract_amount(text) ==
    IF \E dt \in DeadlineDates :
          text = "Community Grants Program Up to $5,000. " \o ClosesText(dt) \o "."
    THEN "$5,000" ELSE ""

\* DEADLINE_RX.search(text).group(0), or ""
extract_deadline(text) ==
    IF \E dt \in DeadlineDates :
          text = "Community Grants Program Up to $5,000. " \o ClosesText(dt) \o "."
    THEN ClosesText(CHOOSE dt \in DeadlineDates :
          text = "Community Grants Program Up to $5,000. " \o ClosesText(dt) \o ".")
    ELSE ""

\* fetch_detail(link): the fields read off the detail page, all empty when
\* the page could not be fetched
fetch_detail(resp) ==
    LET html == safe_get(resp)
    IN  IF ~html.some
        THEN [title |-> "", description |-> "", amount |-> "", deadline |-> ""]
        ELSE LET title == html.text.h1
                 desc == IF html.text.meta # "" THEN html.text.meta
                         ELSE html.text.p
                 gist == title \o " " \o desc
             IN  [title |-> strip(title),
                  description |-> strip(desc),
                  amount |-> extract_amount(gist),
                  deadline |-> extract_deadline(gist)]

\* ai_summarize: "" unless SUMMARIZE and OPENAI_API_KEY are set, else the
\* model's summary of the title and description
ai_summarize(title, description, on) ==
    IF on THEN "Summary of " \o title ELSE ""

\* the body of the enrichment loop for one candidate
Enrich(r, resp, on) ==
    LET d == fetch_detail(resp)
        t == IF d.title # "" THEN d.title ELSE r.title
        de == IF d.description # "" THEN d.description ELSE r.description
        s == ai_summarize(t, de, on)
    IN  [r EXCEPT !.title = t,
                  !.description = de,
                  !.amount = IF d.amount # "" THEN d.amount ELSE @,
                  !.deadline = IF @ = "" /\ d.deadline # "" THEN d.deadline ELSE @,
                  !.summary = IF s # "" THEN s ELSE @]

Min(a, b) == IF a < b THEN a ELSE b

\* parse_generic of refresh_supabase.py: extraction, then enrichment of the
\* first FOLLOW_DETAILS candidates
sb_parse_generic(html, base_url, dweb, on) ==
    IF ~html.some \/ html.text = <<>> THEN <<>>
    ELSE LET items == DedupByLink(
                          MapSeq(LAMBDA a : Candidate(a, base_url),
                                 SelectSeq(html.text, KeepAnchor)),
                          {})
         IN  [i \in DOMAIN items |->
                 IF i <= FOLLOW_DETAILS
                 THEN Enrich(items[i], dweb[items[i].link], on)
                 ELSE items[i]]

RECURSIVE SbScrapeAll(_, _, _, _)
SbScrapeAll(sources, web, dweb, on) ==
    IF sources = <<>> THEN <<>>
    ELSE sb_parse_generic(safe_get(web[Head(sources)]), Head(sources), dweb, on)
             \o SbScrapeAll(Tail(sources), web, dweb, on)

sb_scrape_sources(sources, web, dweb, on) ==
    DedupByLink(SbScrapeAll(sources, web, dweb, on), {})

\* one item of the batch of upsert_grants
UpsertItem(r, council_slug, t) ==
    [id |-> sha16(r.title \o "|" \o strip(r.link)),
     title |-> r.title,
     description |-> r.description,
     amount |-> r.amount,
     deadline |-> r.deadline,
     deadline_iso |-> normalize_date_str(r.deadline),
     link |-> strip(r.link),
     source |-> r.source,
     created_at |-> utcnow_iso(t),
     summary |-> r.summary,
     council_slug |-> council_slug]

\* sb.table("grants").upsert(batch, on_conflict="id"): a row of the batch
\* replaces the stored row of its id, or is inserted
TableUpsert(table, batch) ==
    {g \in table : \A i \in DOMAIN batch : batch[i].id # g.id} \cup Range(batch)

\* upsert_grants(rows, council_slug) at time t: the table after the call
upsert_grants(table, rows, council_slug, t) ==
    LET batch == MapSeq(LAMBDA r : UpsertItem(r, council_slug, t),
                        SelectSeq(rows, LAMBDA r : strip(r.link) # ""))
    IN  IF batch = <<>> THEN table ELSE TableUpsert(table, batch)

\* the scheduler starts refresh_supabase.py, SUMMARIZE at its default
SbStart ==
    /\ sb_pc = "idle"
    /\ sb_pc' = "tenants"
    /\ sb_idx' = 1
    /\ UNCHANGED <<now, fileVars, grants, last_run, sb_summarize, procVars, appVars, readVars, rankVars>>

\* one pass of the tenant loop: scrape_sources, then upsert_grants
SbTenant ==
    /\ sb_pc = "tenants"
    /\ sb_idx <= Len(TenantOrder)
    /\ \E web \in SbWebOf(TENANTS[TenantOrder[sb_idx]]), dweb \in DetailWebs :
          grants' = upsert_grants(
                        grants,
                        sb_scrape_sources(TENANTS[TenantOrder[sb_idx]], web,
                                          dweb, sb_summarize),
                        TenantOrder[sb_idx], now)
    /\ sb_idx' = sb_idx + 1
    /\ UNCHANGED <<now, fileVars, last_run, sb_pc, sb_summarize, procVars,
                   appVars, readVars, rankVars>>

\* a sequel of the loop in which the request of upsert_grants also marks
\* the run before it raises
SbUpsertRaisesMarked ==
    /\ sb_pc = "tenants"
    /\ sb_idx <= Len(TenantOrder)
    /\ \E web \in SbWebOf(TENANTS[TenantOrder[sb_idx]]), dweb \in DetailWebs :
          sb_scrape_sources(TENANTS[TenantOrder[sb_idx]], web, dweb,
                            sb_summarize) # <<>>
    /\ sb_pc' = "idle"
    /\ last_run' = utcnow_iso(now)
    /\ UNCHANGED <<now, fileVars, grants, sb_idx, sb_summarize, procVars, appVars, readVars, rankVars>>

\* the request of upsert_grants raises: the script ends there
SbUpsertRaises ==
    /\ sb_pc = "tenants"
    /\ sb_idx <= Len(TenantOrder)
    /\ \E web \in SbWebOf(TENANTS[TenantOrder[sb_idx]]), dweb \in DetailWebs :
          sb_scrape_sources(TENANTS[TenantOrder[sb_idx]], web, dweb,
                            sb_summarize) # <<>>
    /\ sb_pc' = "idle"
    /\ UNCHANGED <<now, fileVars, grants, last_run, sb_idx, sb_summarize, procVars, appVars, readVars, rankVars>>

\* set_last_run(), after the loop
SbSetLastRun ==
    /\ sb_pc = "tenants"
    /\ sb_idx > Len(TenantOrder)
    /\ last_run' = utcnow_iso(now)
    /\ sb_pc' = "idle"
    /\ UNCHANGED <<now, fileVars, grants, sb_idx, sb_summarize, procVars, appVars, readVars, rankVars>>

NextUpsert == SbStart \/ SbTenant \/ SbUpsertRaises \/ SbSetLastRun \/ Tick

SpecUpsert == Init /\ [][NextUpsert]_vars

-----------------------------------------------------------------------------
(* Properties *)

LinksOf(rows) == {rows[i].link : i \in DOMAIN rows}

NoDupLinks(rows) ==
    \A i, j \in DOMAIN rows : i # j => rows[i].link # rows[j].link

\* C1: file-backed store: after any sequence of refresh runs no two records
\* of the master store share a link, and no two rows of any tenant feed
\* written by the split step share a link.
C1_LinkUnique ==
    /\ NoDupLinks(master)
    /\ \A slug \in Range(TenantOrder) : NoDupLinks(feeds[slug])

\* a later run has scraped, for wyndham, a link the store holds for vic
\* since an earlier day and that wyndham's feed already lists
C1_Witness ==
    /\ pc = "councils" /\ idx = 2
    /\ \E i \in DOMAIN master, j \in DOMAIN new_rows :
          /\ new_rows[j].link = master[i].link
          /\ new_rows[j].council_slug = "wyndham"
          /\ master[i].council_slug = "vic"
          /\ master[i].created_at # utcnow_iso(now)
          /\ master[i].link \in LinksOf(feeds["wyndham"])
    /\ Len(master) >= 3

\* C4: merge_into_master is strictly additive: every record of the master
\* store before a call is in it after the call with every field unchanged,
\* and a call that appends nothing leaves the store as it was.
C4_StrictlyAdditive ==
    [][(pc' = "merged" /\ now' = now) =>
          /\ \A i \in DOMAIN master :
                i \in DOMAIN master' /\ master'[i] = master[i]
          /\ (added' = 0 => master' = master)]_vars

IsoDay(iso) == DayIndex(CHOOSE dt \in CalDates : isoformat(dt) = iso)

\* the canonical date of a deadline text: a text already in ISO form is its
\* own canonical date, any other text has the date the normalizer finds
CanonicalDate(deadline) ==
    IF \E dt \in CalDates : isoformat(dt) = deadline THEN deadline
    ELSE normalize_date_str(deadline)

\* the deadline is unknown, or falls on or after the day
Retained(deadline, day) ==
    \/ CanonicalDate(deadline) = None
    \/ IsoDay(CanonicalDate(deadline)) >= day

\* the rows of the master store a tenant's feed is cut from
ViewOf(slug, rows) ==
    {rows[i] : i \in {k \in DOMAIN rows :
                        rows[k].council_slug \in {slug, "vic"}}}

\* C6: expire_old_rows retains exactly the records whose deadline does not
\* normalize to a date or whose normalized deadline is on or after the
\* as-of date, and removes exactly those whose normalized deadline is
\* strictly before it.
C6_ExpireExact ==
    [][(pc' = "split" /\ now' = now) =>
          \A slug \in Range(TenantOrder) :
              LinksOf(feeds'[slug]) =
                  {r.link : r \in {x \in ViewOf(slug, master) :
                                      Retained(x.deadline, now)}}]_vars

\* C2: upsert-backed store: after any sequence of refresh runs no two
\* stored grant records of a tenant have the same link, whatever title the
\* extraction or the enrichment yields for the link on each run.
C2_UpsertLinkUnique ==
    \A g, h \in grants :
        (g.council_slug = h.council_slug /\ g.link = h.link) => g = h

\* C3: created_at is write-once: in the master store and in the table
\* "grants", a record keeps over every step the created_at it holds.
C3_CreatedAtWriteOnce ==
    [][/\ \A i \in DOMAIN master :
             i \in DOMAIN master' => master'[i].created_at = master[i].created_at
       /\ \A g \in grants : \A h \in grants' :
             h.id = g.id => h.created_at = g.created_at]_vars

\* the sources of a pass whose fetch succeeded, in source order
OkSources(f) ==
    SelectSeq(f.sources, LAMBDA u : ~f.web[u].raised /\ f.web[u].status = 200)

\* the candidates the listing pages of the sources hold, in source order
RECURSIVE Listed(_, _)
Listed(sources, web) ==
    IF sources = <<>> THEN <<>>
    ELSE parse_generic([some |-> TRUE, text |-> web[Head(sources)].text],
                       Head(sources))
             \o Listed(Tail(sources), web)

Untagged(rows) ==
    [i \in DOMAIN rows |->
        [c \in DOMAIN rows[i] \ {"council_slug"} |-> rows[i][c]]]

\* the place of the first row of a link
FirstAt(rows, link) ==
    CHOOSE k \in DOMAIN rows :
        rows[k].link = link /\ \A j \in 1..(k - 1) : rows[j].link # link

\* C10: a failed fetch never blocks the pipeline: scrape_sources returns
\* exactly the candidates of the sources whose fetch succeeded, in source
\* order, one per link with the first occurrence kept; the failed sources
\* contribute nothing.
C10_FailedFetchIsolated ==
    fetched.sources # <<>> =>
        LET listed == Listed(OkSources(fetched), fetched.web)
            rows == Untagged(new_rows)
        IN  /\ NoDupLinks(rows)
            /\ LinksOf(rows) = LinksOf(listed)
            /\ \A i \in DOMAIN rows :
                  rows[i] = listed[FirstAt(listed, rows[i].link)]
            /\ \A i, j \in DOMAIN rows :
                  i < j => FirstAt(listed, rows[i].link)
                              < FirstAt(listed, rows[j].link)

\* a pass in which one source failed with an error status, another
\* answered, and candidates came back
C10_Witness ==
    /\ fetched.sources # <<>>
    /\ \E u \in Range(fetched.sources) : fetched.web[u].status = 503
    /\ \E u \in Range(fetched.sources) : fetched.web[u].status = 200
    /\ Len(new_rows) = 2

-----------------------------------------------------------------------------
(* Two refresh processes in merge_into_master on the same master file,     *)
(* one file operation at a time                                            *)

\* the candidate lists the two processes bring
RaceLists ==
    {<<c>> : c \in {x \in CandUniverse : x.council_slug = "vic"}}
        \cup {l \in {<<c, d>> : c, d \in CandUniverse} :
                 l[1].link = LinkY /\ l[2].link = LinkZ}

\* merge_into_master is entered with a non-empty candidate list
MStart(p) ==
    /\ m_pc[p] = "idle"
    /\ \E rows \in RaceLists : m_rows' = [m_rows EXCEPT ![p] = rows]
    /\ m_pc' = [m_pc EXCEPT ![p] = "read"]
    /\ UNCHANGED <<now, fileVars, sbVars, m_df, m_to_add, m_tmp, appVars, readVars, rankVars>>

\* df = ensure_df(MASTER_CSV); the unseen candidates are selected; with
\* none the call returns 0
MRead(p) ==
    /\ m_pc[p] = "read"
    /\ LET df == ensure_df(master)
           to_add == SelectUnseen(df, m_rows[p], now)
       IN  /\ m_df' = [m_df EXCEPT ![p] = df]
           /\ m_to_add' = [m_to_add EXCEPT ![p] = to_add]
           /\ m_pc' = [m_pc EXCEPT ![p] =
                           IF to_add = <<>> THEN "done" ELSE "write"]
    /\ UNCHANGED <<now, fileVars, sbVars, m_rows, m_tmp, appVars, readVars, rankVars>>

\* save_df_atomic, first half: the frame is written to a temporary file
MWriteTmp(p) ==
    /\ m_pc[p] = "write"
    /\ LET df2 == IF m_df[p] # <<>> THEN m_df[p] \o m_to_add[p]
                  ELSE m_to_add[p]
       IN  m_tmp' = [m_tmp EXCEPT ![p] = to_csv(df2, MASTER_COLUMNS)]
    /\ m_pc' = [m_pc EXCEPT ![p] = "replace"]
    /\ UNCHANGED <<now, fileVars, sbVars, m_rows, m_df, m_to_add, appVars, readVars, rankVars>>

\* save_df_atomic, second half: os.replace(tmp, path)
MReplace(p) ==
    /\ m_pc[p] = "replace"
    /\ master' = m_tmp[p]
    /\ m_pc' = [m_pc EXCEPT ![p] = "done"]
    /\ UNCHANGED <<now, feeds, pc, idx, new_rows, added, fetched, sbVars,
                   m_rows, m_df, m_to_add, m_tmp, appVars, readVars, rankVars>>

NextRace ==
    \/ \E p \in Procs : MStart(p) \/ MRead(p) \/ MWriteTmp(p) \/ MReplace(p)
    \/ Tick

SpecRace == Init /\ [][NextRace]_vars

\* C8: merge_into_master is a critical section: after two processes have
\* both finished a merge on the same master file, the file holds every
\* record either of them appended, and no link twice.
C8_MergeSerialized ==
    (\A p \in Procs : m_pc[p] = "done") =>
        /\ \A p \in Procs : \A i \in DOMAIN m_to_add[p] :
              m_to_add[p][i].link \in LinksOf(master)
        /\ NoDupLinks(master)

-----------------------------------------------------------------------------
(* app.py: the dashboard's fetch and its cache file grants.json            *)

MonthAbbr ==
    <<"Jan", "Feb", "Mar", "Apr", "May", "Jun", "Jul", "Aug", "Sep", "Oct",
      "Nov", "Dec">>

\* strftime("%d %b %Y")
strftime_dbY(dt) ==
    Pad2(dt.d) \o " " \o MonthAbbr[dt.m] \o " " \o ToString(dt.y)

\* the day, month name and year of a worded date
DayMonthYear(dt) ==
    ToString(dt.d) \o " " \o MonthName[dt.m] \o " " \o ToString(dt.y)

\* datetime.utcnow().isoformat(), at the clock's granularity
utcnow_plain(t) == isoformat(DateOfIndex(t)) \o "T00:00:00"

\* the text of the detail pages the dashboard's scrapers meet
WordedDetail(dt) == "Up to $50,000 per project. " \o LongText(dt) \o "."
IsoDetail(dt) == "Closing date " \o isoformat(dt)

\* parse_money: the first dollar figure of the text, or ""
parse_money(text) ==
    IF \E dt \in DeadlineDates : text = WordedDetail(dt) THEN "$50,000"
    ELSE ""

\* parse_deadline: the first "d Month yyyy" of the text, else the first
\* yyyy-mm-dd, else ""
parse_deadline(text) ==
    IF \E dt \in DeadlineDates : text = WordedDetail(dt)
    THEN DayMonthYear(CHOOSE dt \in DeadlineDates : text = WordedDetail(dt))
    ELSE IF \E dt \in DeadlineDates : text = IsoDetail(dt)
    THEN isoformat(CHOOSE dt \in DeadlineDates : text = IsoDetail(dt))
    ELSE ""

AppAnchor(t, h) == [title |-> t, href |-> h]

VicHome == "https://www.vic.gov.au"
FedHome == "https://www.grants.gov.au"

\* what the two listing pages and the detail pages may answer
VicListings ==
    { << AppAnchor("Community Youth Fund", "/grants/youth"),
         AppAnchor("Home", "/"),
         AppAnchor("More", "/grants/more") >>,
      << AppAnchor("Arts Grants 2025", "https://www.vic.gov.au/grants/arts") >> }

FedListings ==
    { << AppAnchor("Regional Roads Program", "/government-grants/roads"),
         AppAnchor("Grant awards", "/reports/awards") >> }

AppDetailPagesOf(url) ==
    CASE url = "https://www.vic.gov.au/grants/youth" ->
           {WordedDetail(DateOfIndex(MaxClock + 1))}
      [] url = "https://www.grants.gov.au/government-grants/roads" ->
           {IsoDetail(DateOfIndex(2))}
      [] OTHER -> {}

AppUrls ==
    {"https://www.vic.gov.au/grants/youth", "https://www.vic.gov.au/grants/arts",
     "https://www.grants.gov.au/government-grants/roads"}

AppResponses(pages) ==
    {[raised |-> FALSE, status |-> 200, text |-> pg] : pg \in pages}
        \cup {[raised |-> FALSE, status |-> 503, text |-> <<>>],
              [raised |-> TRUE, status |-> 0, text |-> <<>>]}

AppDetailResponses(url) ==
    {[raised |-> FALSE, status |-> 200, text |-> pg] :
        pg \in AppDetailPagesOf(url)}
        \cup {[raised |-> FALSE, status |-> 404, text |-> ""]}

AppSites ==
    {site \in [vic : AppResponses(VicListings),
               fed : AppResponses(FedListings),
               d : [AppUrls -> UNION {AppDetailResponses(u) : u \in AppUrls}]] :
        \A u \in AppUrls : site.d[u] \in AppDetailResponses(u)}

\* the href holds the text the selector asks for
HrefHas(href, part) ==
    CASE part = "grants" ->
           href \in {"/grants/youth", "/grants/more",
                     "https://www.vic.gov.au/grants/arts",
                     "/government-grants/roads"}
      [] part = "/government-grants" -> href = "/government-grants/roads"
      [] OTHER -> FALSE

\* not title or len(title) < 6
ShortTitle(title) == title \in {"", "Home", "More"}

\* the item a scraper builds for one anchor
AppItem(a, home, source, state, site, t) ==
    LET url == IF startswith_http(a.href) THEN a.href ELSE home \o a.href
        d == site.d[url]
        detail_text == IF ~d.raised /\ d.status < 400 THEN d.text ELSE ""
    IN  [source |-> source,
         title |-> a.title,
         amount |-> parse_money(detail_text),
         deadline |-> parse_deadline(detail_text),
         category |-> "",
         eligibility |-> detail_text,
         state |-> state,
         url |-> url,
         posted_at |-> utcnow_plain(t)]

\* the body of both scrapers: [] when the listing fetch raises or answers
\* an error status, else one item per selected anchor with a title of six
\* characters or more
AppScrape(resp, part, home, source, state, site, t) ==
    IF resp.raised \/ resp.status >= 400 THEN <<>>
    ELSE MapSeq(LAMBDA a : AppItem(a, home, source, state, site, t),
                SelectSeq(resp.text, LAMBDA a :
                    HrefHas(a.href, part) /\ ~ShortTitle(a.title)))

scrape_vic_grants_gateway(site, t) ==
    AppScrape(site.vic, "grants", VicHome, "VIC Grants Gateway", "VIC",
              site, t)

scrape_grantconnect(site, t) ==
    AppScrape(site.fed, "/government-grants", FedHome,
              "GrantConnect (Federal)", "AU", site, t)

DemoItem(source, title, amount, days, category, eligibility, state, url, t) ==
    [source |-> source, title |-> title, amount |-> amount,
     deadline |-> strftime_dbY(DateOfIndex(t + days)),
     category |-> category, eligibility |-> eligibility, state |-> state,
     url |-> url, posted_at |-> utcnow_plain(t)]

demo_data(t) ==
    << DemoItem("VIC Grants Gateway", "Community Youth Engagement Grant",
                "$250,000", 14, "community, youth",
                "Open to VIC local governments supporting youth engagement initiatives.",
                "VIC", "https://www.vic.gov.au/grants/youth-demo", t),
       DemoItem("GrantConnect (Federal)",
                "Waste & Recycling Infrastructure Upgrade",
                "$1,200,000", 21, "waste",
                "Australian local governments improving waste diversion.",
                "AU", "https://www.grants.gov.au/government-grants/waste-demo", t),
       DemoItem("VIC Grants Gateway", "Active Transport & Cycling Corridors",
                "$500,000", 10, "transport, cycling",
                "VIC councils expanding active transport networks.",
                "VIC", "https://www.vic.gov.au/grants/transport-demo", t) >>

fetch_all_sources(site, t) ==
    LET data == scrape_vic_grants_gateway(site, t)
                    \o scrape_grantconnect(site, t)
    IN  IF data = <<>> THEN demo_data(t) ELSE data

\* load_grants_cache: the records of grants.json; an empty frame when the
\* file is missing or json.load raises on it
load_grants_cache(file) ==
    IF file.exists /\ file.whole THEN file.rows ELSE <<>>

\* one run of the script: the session's frame is loaded from the cache if
\* the session has none; on the fetch button or an empty frame the sources
\* are fetched, the frame is replaced and save_grants_cache opens
\* grants.json for writing, which truncates it
ScriptRun ==
    /\ app_pc \in {"idle", "shown"}
    /\ \E new_session \in {b \in BOOLEAN : app_pc = "idle" => b},
          do_fetch \in BOOLEAN, site \in AppSites :
          LET df0 == IF new_session THEN load_grants_cache(cache_file)
                     ELSE grants_df
          IN  IF do_fetch \/ df0 = <<>>
              THEN /\ grants_df' = fetch_all_sources(site, now)
                   /\ cache_prev' = load_grants_cache(cache_file)
                   /\ cache_file' = [exists |-> TRUE, whole |-> FALSE,
                                     rows |-> <<>>]
                   /\ app_pc' = "dumping"
              ELSE /\ grants_df' = df0
                   /\ app_pc' = "shown"
                   /\ UNCHANGED <<cache_file, cache_prev>>
    /\ UNCHANGED <<now, fileVars, sbVars, procVars, readVars, rankVars>>

\* json.dump writes the next record of the frame to the open file
DumpChunk ==
    /\ app_pc = "dumping"
    /\ Len(cache_file.rows) < Len(grants_df)
    /\ cache_file' = [cache_file EXCEPT
                         !.rows = Append(@, grants_df[Len(@) + 1])]
    /\ UNCHANGED <<now, fileVars, sbVars, procVars, readVars, rankVars, cache_prev,
                   grants_df, app_pc>>

\* json.dump writes the closing bracket and the file is closed
DumpEnd ==
    /\ app_pc = "dumping"
    /\ Len(cache_file.rows) = Len(grants_df)
    /\ cache_file' = [cache_file EXCEPT !.whole = TRUE]
    /\ app_pc' = "shown"
    /\ UNCHANGED <<now, fileVars, sbVars, procVars, readVars, rankVars, cache_prev,
                   grants_df>>

\* another session starts and calls load_grants_cache
ReadCache ==
    /\ loaded' = load_grants_cache(cache_file)
    /\ rd' = ~rd
    /\ UNCHANGED <<now, fileVars, sbVars, procVars, appVars, rankVars>>

\* the dashboard's writes with a concurrent reader, within one day
NextIO == ScriptRun \/ DumpChunk \/ DumpEnd \/ ReadCache

SpecIO == Init /\ [][NextIO]_vars

\* the dashboard's refreshes over the days
NextDash == ScriptRun \/ DumpChunk \/ DumpEnd \/ Tick

SpecDash == Init /\ [][NextDash]_vars

\* C7: persistence is atomic for concurrent readers: a reader of the
\* dashboard's cache file that runs during a write obtains the complete
\* record set from before the write or the complete set from after it, and
\* outside a write the set the file holds.
C7_AtomicForReaders ==
    [][rd' # rd =>
          IF app_pc = "dumping" THEN loaded' \in {cache_prev, grants_df}
          ELSE loaded' = cache_file.rows]_vars

\* the day a dashboard deadline text names, as a set: empty when the text
\* names no date
AppDeadlineDays(text) ==
    {DayIndex(dt) : dt \in {x \in CalDates :
        text \in {DayMonthYear(x), strftime_dbY(x), isoformat(x)}}}

\* C9: a record leaves the active set only by expiry: a record of a
\* tenant's feed, or of the dashboard's record set, is absent after a later
\* refresh only if its deadline has passed as of that refresh; a record
\* with a future or unknown deadline is never dropped, whatever the later
\* scrape returns.
C9_LeavesOnlyByExpiry ==
    [][/\ \A slug \in Range(TenantOrder) : \A i \in DOMAIN feeds[slug] :
             \/ feeds[slug][i].link \in LinksOf(feeds'[slug])
             \/ ~Retained(feeds[slug][i].deadline, now')
       /\ \A i \in DOMAIN grants_df :
             \/ grants_df[i].url \in {grants_df'[k].url : k \in DOMAIN grants_df'}
             \/ \E d \in AppDeadlineDays(grants_df[i].deadline) : d < now']_vars

-----------------------------------------------------------------------------
(* app.py: matching and ranking                                            *)

\* the DEMO_COUNCILS the ranking is run for
DEMO_COUNCILS ==
    {[state |-> "VIC", priorities |-> {"youth", "waste", "roads", "community"}],
     [state |-> "VIC", priorities |-> {"arts", "cycling", "heritage"}]}

\* str.lower() on the keywords in use
lower(kw) == IF kw = "Youth" THEN "youth" ELSE kw

\* the lower-case keywords that occur in a field's text
WordsIn(text) ==
    CASE text \in {"Community Youth Engagement Grant", "community, youth",
                   "Community Youth Fund"} -> {"community", "youth"}
      [] text = "Open to VIC local governments supporting youth engagement initiatives."
           -> {"youth"}
      [] text \in {"Waste & Recycling Infrastructure Upgrade", "waste",
                   "Australian local governments improving waste diversion."}
           -> {"waste"}
      [] text \in {"Active Transport & Cycling Corridors", "transport, cycling"}
           -> {"cycling"}
      [] text = "Arts Grants 2025" -> {"arts"}
      [] text = "Regional Roads Program" -> {"roads"}
      [] OTHER -> {}

\* the keywords of " ".join([title, category, eligibility]).lower()
BlobWords(row) ==
    WordsIn(row.title) \cup WordsIn(row.category) \cup WordsIn(row.eligibility)

\* keyword_score(text, keywords): one point for every entry of the list
\* keywords that occurs in the text
keyword_score(words, keywords) ==
    Cardinality({i \in DOMAIN keywords : lower(keywords[i]) \in words})

\* list(set(priorities)), in some order
RECURSIVE ListOf(_)
ListOf(S) ==
    IF S = {} THEN <<>>
    ELSE LET x == CHOOSE y \in S : TRUE IN <<x>> \o ListOf(S \ {x})

\* datetime.strptime(text, "%d %b %Y"), as the set of its results (empty
\* when it raises): the day, the abbreviated month name, the year
strptime_dbY(text) ==
    {dt \in CalDates :
        text = strftime_dbY(dt) \/ (dt.m = 5 /\ text = DayMonthYear(dt))}

\* (dt - datetime.utcnow()).days: whole days, rounded down, from the clock
\* to the deadline's midnight
days_left(dt, t, midnight) ==
    IF midnight THEN DayIndex(dt) - t ELSE DayIndex(dt) - t - 1

urgent_bonus(deadline_txt, t, midnight) ==
    IF strptime_dbY(deadline_txt) = {} THEN 0
    ELSE LET d == days_left(CHOOSE dt \in strptime_dbY(deadline_txt) : TRUE,
                            t, midnight)
         IN  IF 0 <= d /\ d <= 14 THEN 2
             ELSE IF 15 <= d /\ d <= 30 THEN 1
             ELSE 0

\* the place of a month's abbreviated name in alphabetical order
MonthAlpha == <<5, 4, 8, 1, 9, 7, 6, 2, 12, 11, 10, 3>>

\* the order of the deadline texts as strings: "" first, then the
\* "dd Mon yyyy" texts character by character, then the texts that start
\* with a letter
StrKey(text) ==
    IF text = "" THEN <<0, 0, 0, 0>>
    ELSE IF \E dt \in CalDates : text = strftime_dbY(dt)
    THEN LET dt == CHOOSE x \in CalDates : text = strftime_dbY(x)
         IN  <<1, dt.d, MonthAlpha[dt.m], dt.y>>
    ELSE <<2, 0, 0, 0>>

StrLess(a, b) ==
    LET ka == StrKey(a)
        kb == StrKey(b)
    IN  \E i \in 1..4 : ka[i] < kb[i] /\ \A j \in 1..(i - 1) : ka[j] = kb[j]

\* a sorts strictly before b under
\* sort_values(["relevance_score", "deadline"], ascending=[False, True])
SortsBefore(a, b) ==
    \/ a.relevance_score > b.relevance_score
    \/ (a.relevance_score = b.relevance_score
            /\ StrLess(a.deadline, b.deadline))

\* sort_values: the rows in that order, equal rows in their frame order
RECURSIVE sort_values(_)
sort_values(df) ==
    IF df = <<>> THEN <<>>
    ELSE LET front == sort_values(SubSeq(df, 1, Len(df) - 1))
             r == df[Len(df)]
             k == Cardinality({i \in DOMAIN front : ~SortsBefore(r, front[i])})
         IN  SubSeq(front, 1, k) \o <<r>> \o SubSeq(front, k + 1, Len(front))

\* the row of the frame with its relevance_score
Scored(row, council, extra_keywords, t, midnight) ==
    LET all_kws == ListOf(council.priorities) \o extra_keywords
        score == keyword_score(BlobWords(row), all_kws)
                     + urgent_bonus(row.deadline, t, midnight)
    IN  [c \in DOMAIN row \cup {"relevance_score"} |->
            IF c = "relevance_score" THEN score ELSE row[c]]

match_and_rank(df, council, extra_keywords, t, midnight) ==
    IF df = <<>> THEN df
    ELSE LET filtered == SelectSeq(df, LAMBDA r :
                             r.state \in {council.state, "AU"})
         IN  sort_values(MapSeq(LAMBDA r :
                 Scored(r, council, extra_keywords, t, midnight), filtered))

\* the deadline texts of the frames that are ranked: none, one that names
\* no date, and "dd Mon yyyy" texts around the clock
RankDeadlines(t) ==
    {"", "TBC"} \cup
        {strftime_dbY(DateOfIndex(n)) : n \in {t - 1, t, t + 14, t + 15,
                                               t + 30, t + 31}}

RankRows(t) ==
    {[demo_data(t)[n] EXCEPT !.deadline = d] :
        n \in {1, 2}, d \in RankDeadlines(t)}
        \cup {[demo_data(t)[3] EXCEPT !.state = "NSW", !.deadline = ""]}

RankFrames(t) ==
    {<<r>> : r \in RankRows(t)} \cup {<<r, q>> : r, q \in RankRows(t)}

\* the extra keywords the user types
ExtraLists == {<<>>, <<"youth">>, <<"waste", "waste">>, <<"Youth", "cycling">>}

\* the dashboard ranks a frame for the selected council, once; utcnow is the
\* day's midnight or a later time of the day
RankCall ==
    /\ sel.council.state = ""
    /\ \E df \in RankFrames(now), council \in DEMO_COUNCILS,
          extra_keywords \in ExtraLists, midnight \in BOOLEAN :
          /\ grants_df' = df
          /\ ranked' = match_and_rank(df, council, extra_keywords, now, midnight)
          /\ sel' = [council |-> council, extra_keywords |-> extra_keywords,
                     t |-> now, midnight |-> midnight]
    /\ UNCHANGED <<now, fileVars, sbVars, procVars, readVars, cache_file,
                   cache_prev, app_pc>>

NextRank == RankCall \/ Tick

SpecRank == Init /\ [][NextRank]_vars

\* C11: the base relevance score of a ranked record is the number of
\* distinct keywords, among the council's priorities and the extra
\* keywords, that occur in the record's text: the score is that number plus
\* the urgency bonus.
C11_OnePointPerKeyword ==
    \A i \in DOMAIN ranked :
        ranked[i].relevance_score =
            Cardinality({kw \in sel.council.priorities
                                  \cup Range(sel.extra_keywords) :
                            lower(kw) \in BlobWords(ranked[i])})
                + urgent_bonus(ranked[i].deadline, sel.t, sel.midnight)

\* the bonus by calendar days from the current date to the deadline date
CalendarBonus(deadline, t) ==
    IF \E d \in AppDeadlineDays(deadline) : 0 <= d - t /\ d - t <= 14 THEN 2
    ELSE IF \E d \in AppDeadlineDays(deadline) : 15 <= d - t /\ d - t <= 30
    THEN 1
    ELSE 0

\* C12: the urgency bonus is +2 for a deadline 0 to 14 calendar days away,
\* +1 for 15 to 30 days away, 0 for a deadline further away, past, missing
\* or unparseable: the score is the keyword score plus that bonus.
C12_UrgencyBands ==
    \A i \in DOMAIN ranked :
        ranked[i].relevance_score =
            keyword_score(BlobWords(ranked[i]),
                          ListOf(sel.council.priorities) \o sel.extra_keywords)
                + CalendarBonus(ranked[i].deadline, sel.t)

\* C13: the ranked output is ordered by descending score, ties by ascending
\* deadline date, records without a known deadline last in their tie: of
\* two adjacent records the first has the higher score, or the scores are
\* equal and the first's date is not later, or the second has no date.
C13_RankOrder ==
    \A i \in DOMAIN ranked : i + 1 \in DOMAIN ranked =>
        LET a == ranked[i]
            b == ranked[i + 1]
        IN  \/ a.relevance_score > b.relevance_score
            \/ /\ a.relevance_score = b.relevance_score
               /\ \/ AppDeadlineDays(b.deadline) = {}
                  \/ \E x \in AppDeadlineDays(a.deadline) :
                        \E y \in AppDeadlineDays(b.deadline) : x <= y

\* C14: expire is idempotent: on the same day, expire_old_rows applied to
\* its own result retains exactly what one application retains.
C14_ExpireIdempotent ==
    LET once == expire_old_rows(ensure_df(master), now)
    IN  expire_old_rows(once, now) = once

\* a store of which the expiry removes one record and keeps a dated one and
\* an undated one
C14_Witness ==
    LET df == ensure_df(master)
        once == expire_old_rows(df, now)
    IN  /\ Len(once) < Len(df)
        /\ \E i \in DOMAIN once : once[i].deadline_iso # None
        /\ \E i \in DOMAIN once : once[i].deadline_iso = None

-----------------------------------------------------------------------------
(* The two refreshes stamping the same candidates, at any time and for any *)
(* tenant                                                                  *)

\* candidates that agree in title and link and differ elsewhere, and one
\* of another link
IdCands ==
    {Cand("Youth Program", LinkY, "N/A", SlashText(DateOfIndex(3)), "vic"),
     Cand("Youth Program", LinkY, "Funding for youth groups.", "", "yarra"),
     Cand("Community Grant Round", LinkX, "Apply now.", "", "vic")}

\* merge_into_master on one candidate
IdMerge ==
    /\ \E c \in IdCands :
          LET res == merge_into_master(master, <<c>>, now)
          IN  /\ master' = res.file
              /\ new_rows' = <<c>>
              /\ added' = res.added
    /\ pc' = "merged"
    /\ UNCHANGED <<now, feeds, idx, fetched, sbVars, procVars, appVars, readVars, rankVars>>

\* upsert_grants on one candidate for a tenant
IdUpsert ==
    /\ \E c \in IdCands, slug \in {"vic", "yarra"} :
          grants' = upsert_grants(grants, Untagged(<<c>>), slug, now)
    /\ UNCHANGED <<now, fileVars, last_run, sb_pc, sb_idx, sb_summarize, procVars, appVars, readVars, rankVars>>

NextIds == IdMerge \/ IdUpsert \/ Tick

SpecIds == Init /\ [][NextIds]_vars

\* C15: the record id is a function of (title, link) only: any two records
\* stamped by merge_into_master or upsert_grants, at any time, for any
\* tenant, on any store and with any other fields, that agree in title and
\* link have the same id, across the two refreshes too.
C15_IdByTitleAndLink ==
    \A a, b \in Range(master) \cup grants :
        (a.title = b.title /\ a.link = b.link) => a.id = b.id

\* both refreshes have stamped the same title and link, on different days,
\* for different tenants, with different descriptions
C15_Witness ==
    \E a \in Range(master) : \E b \in grants :
        /\ a.title = b.title /\ a.link = b.link
        /\ a.created_at # b.created_at
        /\ a.council_slug # b.council_slug
        /\ a.description # b.description

-----------------------------------------------------------------------------
(* parse_generic of refresh_supabase.py called on one source, with any     *)
(* answers of the detail pages and either setting of SUMMARIZE             *)

EnrichCall ==
    /\ fetched.sources = <<>>
    /\ \E u \in {"https://vic.example/grants", "https://wyndham.example/grants"},
          dweb \in DetailWebs, on \in BOOLEAN :
          \E resp \in SbResponses(u) :
              /\ new_rows' = sb_parse_generic(safe_get(resp), u, dweb, on)
              /\ fetched' = [sources |-> <<u>>, web |-> <<resp>>, dweb |-> dweb]
              /\ sb_summarize' = on
    /\ UNCHANGED <<now, master, feeds, pc, idx, added, grants, last_run, sb_pc,
                   sb_idx, procVars, appVars, readVars, rankVars>>

NextEnrich == EnrichCall \/ Tick

SpecEnrich == Init /\ [][NextEnrich]_vars

\* the detail fetch of a link succeeded
DetailOk(resp) == ~resp.raised /\ resp.status = 200

\* C17: detail enrichment changes a candidate only when it is among the
\* first FOLLOW_DETAILS candidates of its source and its detail fetch
\* succeeds: a candidate beyond the cap, or whose detail fetch fails or
\* raises, is exactly the candidate of the listing extraction.
C17_EnrichOnlyOnSuccess ==
    fetched.sources # <<>> =>
        LET listing == parse_generic(safe_get(fetched.web[1]),
                                     fetched.sources[1])
        IN  /\ Len(new_rows) = Len(listing)
            /\ \A i \in DOMAIN new_rows :
                  (i > FOLLOW_DETAILS
                      \/ ~DetailOk(fetched.dweb[listing[i].link]))
                  => new_rows[i] = listing[i]

-----------------------------------------------------------------------------
(* parse_generic called on one page of hyperlinks                          *)

\* hyperlinks with and without keywords in the title and in the href
ParseAnchors ==
    {Anchor("Community Grant Round", "/grants/x", "Apply now.", ""),
     Anchor("Contact us", "/about", "", ""),
     Anchor("Arts for all", "/programs/arts", "", ""),
     Anchor("Learn more", "/funding/z", "", ""),
     Anchor("Start here", "/apply/now", "", ""),
     Anchor(" ", "/grants/q", "", ""),
     Anchor("Youth Program", "/youth", "", "")}

ParsePages ==
    {<<a>> : a \in ParseAnchors} \cup {<<a, b>> : a, b \in ParseAnchors}

ParseCall ==
    /\ fetched.sources = <<>>
    /\ \E page \in ParsePages :
          LET u == "https://vic.example/grants"
              resp == [raised |-> FALSE, status |-> 200, text |-> page]
          IN  /\ new_rows' = parse_generic(safe_get(resp), u)
              /\ fetched' = [sources |-> <<u>>, web |-> <<resp>>,
                             dweb |-> <<>>]
    /\ UNCHANGED <<now, master, feeds, pc, idx, added, sbVars, procVars,
                   appVars, readVars, rankVars>>

NextParse == ParseCall \/ Tick

SpecParse == Init /\ [][NextParse]_vars

\* the title is non-empty and the title or the href holds a keyword
HoldsKeyword(a) ==
    /\ strip(a.title) # ""
    /\ (KeywordsIn(strip(a.title)) \cup KeywordsIn(strip(a.href)))
           \cap KEYWORDS # {}

\* C18: parse_generic keeps a hyperlink as a candidate if and only if its
\* title is non-empty and the title, or as fallback the href, holds one of
\* the keywords grant, fund, funding, program, round, apply; the
\* upsert-backed extractor keeps the same hyperlinks.
C18_KeywordFilter ==
    fetched.sources # <<>> =>
        LET page == fetched.web[1].text
            u == fetched.sources[1]
            down == [raised |-> TRUE, status |-> 0, text |-> <<>>]
            sb_rows == sb_parse_generic(
                           safe_get(fetched.web[1]), u,
                           [l \in {Candidate(page[i], u).link : i \in DOMAIN page}
                               |-> down],
                           FALSE)
        IN  /\ LinksOf(new_rows) =
                  {Candidate(page[i], u).link :
                      i \in {k \in DOMAIN page : HoldsKeyword(page[k])}}
            /\ LinksOf(sb_rows) = LinksOf(new_rows)

\* C19: the last-refresh marker records only successful refreshes: it is
\* written only after the scrape and upsert of every tenant have completed,
\* and a run that ends because a tenant's upsert raises leaves the marker
\* as it was.
C19_MarkerOnlyOnSuccess ==
    [][/\ last_run' # last_run =>
             (sb_pc = "tenants" /\ sb_idx > Len(TenantOrder))
       /\ (sb_pc = "tenants" /\ sb_pc' = "idle" /\ sb_idx <= Len(TenantOrder))
             => last_run' = last_run]_vars

\* a run that ended on a raise, on a later day than the completed run
\* whose marker is still in place
C19_Witness ==
    /\ sb_pc = "idle"
    /\ sb_idx <= Len(TenantOrder)
    /\ \E t \in 1..MaxClock : t < now /\ last_run = utcnow_iso(t)

====
